---- MODULE Spec2Model ----
(***************************************************************************)
(* Model of mypy/git.py: the git submodule integrity check.                *)
(*                                                                         *)
(* Byte strings are sequences of one-character strings.  The file system   *)
(* and the git tool are the environment: which directories hold a ".git"   *)
(* entry, whether the git executable runs, and what each git command       *)
(* prints.  The environment is read-only during a check.  Whether a shell  *)
(* command exits non-zero is chosen when the command is run.               *)
(*                                                                         *)
(* Spec      : verify_git_integrity_or_abort(datadir), one step per call   *)
(*             it makes.                                                   *)
(* SpecParse : get_submodules applied to arbitrary command output.         *)
(***************************************************************************)
EXTENDS Integers, Sequences, FiniteSets, TLC

\* ------------------------------------------------------------------ bounds
MaxSubs == 2
MaxOutputLen == 6

\* ----------------------------------------------------------- byte strings
SP == " "
TAB == "\t"
LF == "\n"

\* The bytes that bytes.strip() removes, among the bytes used here.
Whitespace == {SP, TAB, LF}

Min(S) == CHOOSE x \in S : \A y \in S : x <= y

\* bytes.find for a single byte, 1-based; 0 when absent.
Find(s, c) ==
  IF \E k \in 1..Len(s) : s[k] = c
  THEN Min({k \in 1..Len(s) : s[k] = c})
  ELSE 0

RECURSIVE lstrip(_)
lstrip(s) == IF s # <<>> /\ Head(s) \in Whitespace THEN lstrip(Tail(s)) ELSE s

RECURSIVE rstrip(_)
rstrip(s) ==
  IF s # <<>> /\ s[Len(s)] \in Whitespace
  THEN rstrip(SubSeq(s, 1, Len(s) - 1))
  ELSE s

\* bytes.strip()
strip(s) == rstrip(lstrip(s))

\* bytes.splitlines(): lines end at LF, no trailing empty line.
RECURSIVE splitlines(_)
splitlines(s) ==
  IF s = <<>> THEN <<>>
  ELSE LET k == Find(s, LF) IN
       IF k = 0 THEN <<s>>
       ELSE <<SubSeq(s, 1, k - 1)>> \o splitlines(SubSeq(s, k + 1, Len(s)))

\* bytes.split() without a separator: fields are maximal runs of
\* non-whitespace bytes.
RECURSIVE split_whitespace(_, _)
split_whitespace(s, sep) ==
  LET t == lstrip(s) IN
  IF t = <<>> THEN <<>>
  ELSE LET ks == {k \in 1..Len(t) : t[k] \in Whitespace} IN
       IF ks = {} THEN <<t>>
       ELSE <<SubSeq(t, 1, Min(ks) - 1)>>
              \o split_whitespace(SubSeq(t, Min(ks) + 1, Len(t)), sep)

\* bytes.split(sep) for a one-byte separator: every occurrence of sep ends a
\* field, so adjacent separators delimit empty fields.
RECURSIVE split(_, _)
split(s, sep) ==
  LET k == Find(s, sep) IN
  IF k = 0 THEN <<s>>
  ELSE <<SubSeq(s, 1, k - 1)>> \o split(SubSeq(s, k + 1, Len(s)), sep)

\* ------------------------------------------------------- get_submodules
\* Result of parsing one line that raised (IndexError on line[0] or
\* ValueError on the unpacking).
NoRecord == [ok |-> FALSE, status |-> "", sha5 |-> <<>>, name |-> <<>>]

\* One iteration of the loop of get_submodules.
get_submodules_line(line) ==
  IF line = <<>> THEN NoRecord
  ELSE LET fields == split(Tail(line), SP) IN
       IF Len(fields) < 2 THEN NoRecord
       ELSE [ok |-> TRUE, status |-> line[1],
             sha5 |-> fields[1], name |-> fields[2]]

\* ------------------------------------------------------------ environment
\* A path is the sequence of its components.
RootDir == << <<"r">> >>

\* os.path.join(dir, name) for a relative name.
os_path_join(dir, name) == dir \o <<name>>

Names == << <<"A">>, <<"B">>, <<"C">>, <<"D">> >>

\* Revision recorded by the parent checkout for the submodule at position k.
RecordedRev(k) == IF k % 2 = 1 THEN <<"a">> ELSE <<"b">>

HeadOutputs == {<<"a", LF>>, <<"b", LF>>}
StatusOutputs == {<<>>, <<SP, "M", SP, "f", LF>>}
CleanOutputs == {<<>>, <<"W", SP, "f", LF>>}

SubWorld == [isRepo : BOOLEAN, head : HeadOutputs,
             status : StatusOutputs, clean : CleanOutputs]

GitTools == {"ok", "nonzero", "notfound"}

\* One line of "git submodule status" for position k in environment w.
StatusLine(w, k) ==
  <<IF ~w[k].isRepo THEN "-"
    ELSE IF strip(w[k].head) # RecordedRev(k) THEN "+" ELSE SP>>
    \o RecordedRev(k) \o <<SP>> \o Names[k]
    \o (IF w[k].isRepo THEN <<SP, "(", "d", ")">> ELSE <<>>) \o <<LF>>

RECURSIVE StatusListing(_, _)
StatusListing(w, k) ==
  IF k > Len(w) THEN <<>> ELSE StatusLine(w, k) \o StatusListing(w, k + 1)

VARIABLES
  gitDirs,          \* directories that contain a ".git" entry
  gitTool,          \* what running the git executable directly does
  submoduleStatus,  \* output of "git submodule status" in the root
  cmdOut,           \* submodule directory -> output of each query run there
  pc,               \* position in verify_git_integrity_or_abort
  lines,            \* lines the generator get_submodules has not parsed yet
  idx,              \* number of records the generator has yielded
  revision,         \* loop variable: recorded revision
  submodule,        \* loop variable: submodule name (decoded; ASCII here)
  stderr,           \* lines printed to sys.stderr
  outcome,          \* "running", "returned", "exit1" (SystemExit(1)), "raised"
  trace,            \* every existence check and command run, in order
  output,           \* SpecParse: raw command output given to get_submodules
  plines,           \* SpecParse: lines not parsed yet
  records,          \* SpecParse: records yielded so far
  ppc               \* SpecParse: position in get_submodules

envVars == <<gitDirs, gitTool, submoduleStatus, cmdOut>>
runVars == <<pc, lines, idx, revision, submodule, stderr, outcome, trace>>
parseVars == <<output, plines, records, ppc>>
vars == <<envVars, runVars, parseVars>>

\* -------------------------------------------------------------- helpers
is_git_repo(dir) == dir \in gitDirs

Call(op, dir, ok, out) == [op |-> op, dir |-> dir, idx |-> idx, ok |-> ok, out |-> out]

Line(msg, arg) == [msg |-> msg, arg |-> arg]

warn_no_git_executable == <<Line("Warning: git executable not in path", <<>>)>>
warn_dirty(dir) == <<Line("Warning: uncommitted changes", dir)>>
warn_extra_files(dir) == <<Line("Warning: untracked files", dir)>>
error_submodule_not_initialized(name, dir) ==
  <<Line("Submodule not initialized", name), Line("Please run:", <<>>),
    Line("cd", dir), Line("git submodule init", name)>>
error_submodule_not_updated(name, dir) ==
  <<Line("Submodule not updated", name), Line("Please run:", <<>>),
    Line("cd", dir), Line("git submodule update", name)>>

submodule_path == os_path_join(RootDir, submodule)

Finish(how) == /\ outcome' = how
               /\ pc' = "done"

\* ------------------------------------------------------------------ Init
InitParseIdle ==
  /\ output = <<>>
  /\ plines = <<>>
  /\ records = <<>>
  /\ ppc = "idle"

InitRun ==
  /\ pc = "start"
  /\ lines = <<>>
  /\ idx = 0
  /\ revision = <<>>
  /\ submodule = <<>>
  /\ stderr = <<>>
  /\ outcome = "running"
  /\ trace = <<>>

Init ==
  /\ \E n \in 0..MaxSubs : \E w \in [1..n -> SubWorld] : \E rootIsRepo \in BOOLEAN :
       /\ gitDirs = (IF rootIsRepo THEN {RootDir} ELSE {})
                      \cup {os_path_join(RootDir, Names[k]) : k \in {j \in 1..n : w[j].isRepo}}
       /\ submoduleStatus = StatusListing(w, 1)
       /\ cmdOut = [d \in {os_path_join(RootDir, Names[k]) : k \in 1..n} |->
                      LET k == CHOOSE j \in 1..n : os_path_join(RootDir, Names[j]) = d
                      IN [head |-> w[k].head, status |-> w[k].status, clean |-> w[k].clean]]
  /\ gitTool \in GitTools
  /\ InitRun
  /\ InitParseIdle

\* --------------------------------------------------------------- actions
\* CheckRoot without the early return.
CheckRoot_NoReturn ==
  /\ pc = "start"
  /\ trace' = Append(trace, Call("is_git_repo", RootDir, is_git_repo(RootDir), <<>>))
  /\ pc' = "have_git"
  /\ UNCHANGED <<envVars, parseVars, lines, idx, revision, submodule, stderr, outcome>>

\* line 93-94
CheckRoot ==
  /\ pc = "start"
  /\ trace' = Append(trace, Call("is_git_repo", RootDir, is_git_repo(RootDir), <<>>))
  /\ IF ~is_git_repo(RootDir)
     THEN Finish("returned")
     ELSE pc' = "have_git" /\ UNCHANGED outcome
  /\ UNCHANGED <<envVars, parseVars, lines, idx, revision, submodule, stderr>>

\* have_git(): only CalledProcessError is caught; a missing executable makes
\* check_output raise FileNotFoundError, which passes through.
have_git == IF gitTool = "ok" THEN "True"
            ELSE IF gitTool = "nonzero" THEN "False"
            ELSE "raise"

\* line 95-97
HaveGit ==
  /\ pc = "have_git"
  /\ trace' = Append(trace, Call("git config -l", <<>>, gitTool = "ok", <<>>))
  /\ CASE have_git = "True" -> pc' = "get_submodules" /\ UNCHANGED <<stderr, outcome>>
       [] have_git = "False" -> stderr' = stderr \o warn_no_git_executable /\ Finish("returned")
       [] OTHER -> Finish("raised") /\ UNCHANGED stderr
  /\ UNCHANGED <<envVars, parseVars, lines, idx, revision, submodule>>

\* GetSubmodules with the command's failure swallowed as an empty listing.
GetSubmodules_Caught ==
  /\ pc = "get_submodules"
  /\ \E ok \in BOOLEAN :
       /\ trace' = Append(trace, Call("git submodule status", RootDir, ok,
                                      IF ok THEN submoduleStatus ELSE <<>>))
       /\ lines' = (IF ok THEN splitlines(submoduleStatus) ELSE <<>>)
       /\ pc' = "for"
  /\ UNCHANGED <<envVars, parseVars, idx, revision, submodule, stderr, outcome>>

\* First next() on the generator: run_in_dir(dir, "git submodule status").
GetSubmodules ==
  /\ pc = "get_submodules"
  /\ \E ok \in BOOLEAN :
       /\ trace' = Append(trace, Call("git submodule status", RootDir, ok,
                                      IF ok THEN submoduleStatus ELSE <<>>))
       /\ IF ok
          THEN lines' = splitlines(submoduleStatus) /\ pc' = "for" /\ UNCHANGED outcome
          ELSE Finish("raised") /\ UNCHANGED lines
  /\ UNCHANGED <<envVars, parseVars, idx, revision, submodule, stderr>>

\* line 98-99: the generator parses its next line and the loop binds it.
ForNext ==
  /\ pc = "for"
  /\ IF lines = <<>>
     THEN Finish("returned") /\ UNCHANGED <<lines, idx, revision, submodule>>
     ELSE LET r == get_submodules_line(Head(lines)) IN
          IF ~r.ok
          THEN Finish("raised") /\ UNCHANGED <<lines, idx, revision, submodule>>
          ELSE /\ lines' = Tail(lines)
               /\ idx' = idx + 1
               /\ revision' = r.sha5
               /\ submodule' = r.name
               /\ pc' = "is_git_repo"
               /\ UNCHANGED outcome
  /\ UNCHANGED <<envVars, parseVars, stderr, trace>>

\* CheckSubmoduleRepo without sys.exit(1) after the diagnostic.
CheckSubmoduleRepo_NoExit ==
  /\ pc = "is_git_repo"
  /\ trace' = Append(trace, Call("is_git_repo", submodule_path, is_git_repo(submodule_path), <<>>))
  /\ IF ~is_git_repo(submodule_path)
     THEN /\ stderr' = stderr \o error_submodule_not_initialized(submodule, RootDir)
          /\ pc' = "for"
     ELSE pc' = "git_revision" /\ UNCHANGED stderr
  /\ UNCHANGED <<envVars, parseVars, lines, idx, revision, submodule, outcome>>

\* line 100-102
CheckSubmoduleRepo ==
  /\ pc = "is_git_repo"
  /\ trace' = Append(trace, Call("is_git_repo", submodule_path, is_git_repo(submodule_path), <<>>))
  /\ IF ~is_git_repo(submodule_path)
     THEN /\ stderr' = stderr \o error_submodule_not_initialized(submodule, RootDir)
          /\ Finish("exit1")
     ELSE pc' = "git_revision" /\ UNCHANGED <<stderr, outcome>>
  /\ UNCHANGED <<envVars, parseVars, lines, idx, revision, submodule>>

\* GitRevision comparing the untrimmed output.
GitRevision_NoStrip ==
  /\ pc = "git_revision"
  /\ \E ok \in BOOLEAN :
       LET out == IF ok THEN cmdOut[submodule_path].head ELSE <<>> IN
       /\ trace' = Append(trace, Call("git rev-parse HEAD", submodule_path, ok, out))
       /\ IF ~ok
          THEN Finish("raised") /\ UNCHANGED stderr
          ELSE IF revision # out
          THEN /\ stderr' = stderr \o error_submodule_not_updated(submodule, RootDir)
               /\ Finish("exit1")
          ELSE pc' = "is_dirty" /\ UNCHANGED <<stderr, outcome>>
  /\ UNCHANGED <<envVars, parseVars, lines, idx, revision, submodule>>

\* GitRevision without sys.exit(1) after the diagnostic: the elif chain ends
\* and the loop goes on.
GitRevision_NoExit ==
  /\ pc = "git_revision"
  /\ \E ok \in BOOLEAN :
       LET out == IF ok THEN cmdOut[submodule_path].head ELSE <<>> IN
       /\ trace' = Append(trace, Call("git rev-parse HEAD", submodule_path, ok, out))
       /\ IF ~ok
          THEN Finish("raised") /\ UNCHANGED stderr
          ELSE IF revision # strip(out)
          THEN /\ stderr' = stderr \o error_submodule_not_updated(submodule, RootDir)
               /\ pc' = "is_dirty"
               /\ UNCHANGED outcome
          ELSE pc' = "is_dirty" /\ UNCHANGED <<stderr, outcome>>
  /\ UNCHANGED <<envVars, parseVars, lines, idx, revision, submodule>>

\* run_in_dir(submodule_path, command): CalledProcessError on a non-zero exit.
\* line 103-105
GitRevision ==
  /\ pc = "git_revision"
  /\ \E ok \in BOOLEAN :
       LET out == IF ok THEN cmdOut[submodule_path].head ELSE <<>> IN
       /\ trace' = Append(trace, Call("git rev-parse HEAD", submodule_path, ok, out))
       /\ IF ~ok
          THEN Finish("raised") /\ UNCHANGED stderr
          ELSE IF revision # strip(out)
          THEN /\ stderr' = stderr \o error_submodule_not_updated(submodule, RootDir)
               /\ Finish("exit1")
          ELSE pc' = "is_dirty" /\ UNCHANGED <<stderr, outcome>>
  /\ UNCHANGED <<envVars, parseVars, lines, idx, revision, submodule>>

\* IsDirty with "if" instead of "elif" on the next branch: the extra-files
\* query also runs for a dirty submodule.
IsDirty_FallThrough ==
  /\ pc = "is_dirty"
  /\ \E ok \in BOOLEAN :
       LET out == IF ok THEN cmdOut[submodule_path].status ELSE <<>> IN
       /\ trace' = Append(trace, Call("git status -uno --porcelain", submodule_path, ok, out))
       /\ IF ~ok
          THEN Finish("raised") /\ UNCHANGED stderr
          ELSE /\ stderr' = (IF strip(out) # <<>> THEN stderr \o warn_dirty(submodule) ELSE stderr)
               /\ pc' = "has_extra_files"
               /\ UNCHANGED outcome
  /\ UNCHANGED <<envVars, parseVars, lines, idx, revision, submodule>>

\* IsDirty treating uncommitted changes as fatal.
IsDirty_Fatal ==
  /\ pc = "is_dirty"
  /\ \E ok \in BOOLEAN :
       LET out == IF ok THEN cmdOut[submodule_path].status ELSE <<>> IN
       /\ trace' = Append(trace, Call("git status -uno --porcelain", submodule_path, ok, out))
       /\ IF ~ok
          THEN Finish("raised") /\ UNCHANGED stderr
          ELSE IF strip(out) # <<>>
          THEN stderr' = stderr \o warn_dirty(submodule) /\ Finish("exit1")
          ELSE pc' = "has_extra_files" /\ UNCHANGED <<stderr, outcome>>
  /\ UNCHANGED <<envVars, parseVars, lines, idx, revision, submodule>>

\* line 106-107
IsDirty ==
  /\ pc = "is_dirty"
  /\ \E ok \in BOOLEAN :
       LET out == IF ok THEN cmdOut[submodule_path].status ELSE <<>> IN
       /\ trace' = Append(trace, Call("git status -uno --porcelain", submodule_path, ok, out))
       /\ IF ~ok
          THEN Finish("raised") /\ UNCHANGED stderr
          ELSE IF strip(out) # <<>>
          THEN stderr' = stderr \o warn_dirty(submodule) /\ pc' = "for" /\ UNCHANGED outcome
          ELSE pc' = "has_extra_files" /\ UNCHANGED <<stderr, outcome>>
  /\ UNCHANGED <<envVars, parseVars, lines, idx, revision, submodule>>

\* HasExtraFiles with the comparison inverted.
HasExtraFiles_Inverted ==
  /\ pc = "has_extra_files"
  /\ \E ok \in BOOLEAN :
       LET out == IF ok THEN cmdOut[submodule_path].clean ELSE <<>> IN
       /\ trace' = Append(trace, Call("git clean --dry-run -d", submodule_path, ok, out))
       /\ IF ~ok
          THEN Finish("raised") /\ UNCHANGED stderr
          ELSE /\ stderr' = (IF strip(out) = <<>>
                             THEN stderr \o warn_extra_files(submodule)
                             ELSE stderr)
               /\ pc' = "for"
               /\ UNCHANGED outcome
  /\ UNCHANGED <<envVars, parseVars, lines, idx, revision, submodule>>

\* line 108-109
HasExtraFiles ==
  /\ pc = "has_extra_files"
  /\ \E ok \in BOOLEAN :
       LET out == IF ok THEN cmdOut[submodule_path].clean ELSE <<>> IN
       /\ trace' = Append(trace, Call("git clean --dry-run -d", submodule_path, ok, out))
       /\ IF ~ok
          THEN Finish("raised") /\ UNCHANGED stderr
          ELSE /\ stderr' = (IF strip(out) # <<>>
                             THEN stderr \o warn_extra_files(submodule)
                             ELSE stderr)
               /\ pc' = "for"
               /\ UNCHANGED outcome
  /\ UNCHANGED <<envVars, parseVars, lines, idx, revision, submodule>>

Next ==
  \/ CheckRoot
  \/ HaveGit
  \/ GetSubmodules
  \/ ForNext
  \/ CheckSubmoduleRepo
  \/ GitRevision
  \/ IsDirty
  \/ HasExtraFiles

Spec == Init /\ [][Next]_vars

\* ------------------------------------------------------------- SpecParse
Bytes == {SP, TAB, LF, "a", "b"}

RECURSIVE SeqsUpTo(_, _)
SeqsUpTo(S, n) ==
  IF n = 0 THEN {<<>>}
  ELSE LET shorter == SeqsUpTo(S, n - 1) IN
       shorter \cup {Append(s, c) : s \in {t \in shorter : Len(t) = n - 1}, c \in S}

InitParse ==
  /\ output \in SeqsUpTo(Bytes, MaxOutputLen)
  /\ plines = <<>>
  /\ records = <<>>
  /\ ppc = "run"
  /\ gitDirs = {RootDir}
  /\ gitTool = "ok"
  /\ submoduleStatus = output
  /\ cmdOut = <<>>
  /\ InitRun

\* line 35-36: the command has run and its output is split into lines.
ParseStart ==
  /\ ppc = "run"
  /\ plines' = splitlines(output)
  /\ ppc' = "for"
  /\ UNCHANGED <<envVars, runVars, output, records>>

\* line 36-39: one iteration; an exception ends the generator.
ParseLine ==
  /\ ppc = "for"
  /\ IF plines = <<>>
     THEN ppc' = "exhausted" /\ UNCHANGED <<plines, records>>
     ELSE LET r == get_submodules_line(Head(plines)) IN
          IF r.ok
          THEN /\ records' = Append(records, r)
               /\ plines' = Tail(plines)
               /\ UNCHANGED ppc
          ELSE ppc' = "raised" /\ UNCHANGED <<plines, records>>
  /\ UNCHANGED <<envVars, runVars, output>>

NextParse ==
  \/ ParseStart
  \/ ParseLine

SpecParse == InitParse /\ [][NextParse]_vars

\* ======================================================================
\* Properties
\* ======================================================================
\* The records the listing command reports, in its order.
Listed ==
  LET ls == splitlines(submoduleStatus) IN
  [k \in 1..Len(ls) |-> get_submodules_line(ls[k])]

PathOf(k) == os_path_join(RootDir, Listed[k].name)
NotRepo(k) == PathOf(k) \notin gitDirs
Mismatch(k) == ~NotRepo(k) /\ strip(cmdOut[PathOf(k)].head) # Listed[k].sha5
Dirty(k) == strip(cmdOut[PathOf(k)].status) # <<>>
Extra(k) == strip(cmdOut[PathOf(k)].clean) # <<>>
Fatal(k) == NotRepo(k) \/ Mismatch(k)

IsExistsCheck(c) == c.op = "is_git_repo"
IsProbe(c) == c.op = "git config -l"
\* A command run through run_in_dir exited non-zero.
CommandFailed(c) == ~IsExistsCheck(c) /\ ~IsProbe(c) /\ ~c.ok
NoCommandFailed == \A t \in 1..Len(trace) : ~CommandFailed(trace[t])

FatalMsgs == {"Submodule not initialized", "Submodule not updated"}
WarnMsgs == {"Warning: uncommitted changes", "Warning: untracked files"}
\* Positions in stderr of the headline of a diagnostic about submodule name.
DiagsNaming(name) ==
  {p \in 1..Len(stderr) : stderr[p].msg \in FatalMsgs \cup WarnMsgs /\ stderr[p].arg = name}
LastLines(n) == IF Len(stderr) < n THEN <<>> ELSE SubSeq(stderr, Len(stderr) - n + 1, Len(stderr))
\* Calls made for the k-th listed submodule, in order.
OpsFor(k) == LET F[t \in 0..Len(trace)] ==
                   IF t = 0 THEN <<>>
                   ELSE IF trace[t].idx = k THEN Append(F[t - 1], trace[t].op) ELSE F[t - 1]
             IN F[Len(trace)]
Examined(k) == \E t \in 1..Len(trace) : trace[t].idx = k

\* C1: submodules are examined in listing order (the k-th examined entry is
\* the k-th listed one and calls never go back to an earlier entry); when the
\* existence check of an entry fails, that entry is the first listed one that
\* is not a repository, the not-initialized diagnostic for it is the last
\* thing on stderr, the process has exited with status 1, and no call of any
\* kind follows; and a run that meets no earlier mismatch or command failure
\* does end that way at the first entry that is not a repository.
C1_FirstUninitializedStops ==
  /\ \A s, t \in 1..Len(trace) : s < t => trace[s].idx <= trace[t].idx
  /\ \A t \in 1..Len(trace) :
       trace[t].idx >= 1 => /\ trace[t].idx <= Len(Listed)
                            /\ trace[t].dir = PathOf(trace[t].idx)
  /\ \A t \in 1..Len(trace) :
       (IsExistsCheck(trace[t]) /\ trace[t].idx >= 1 /\ ~trace[t].ok) =>
          /\ NotRepo(trace[t].idx)
          /\ \A j \in 1..(trace[t].idx - 1) : ~NotRepo(j)
          /\ t = Len(trace)
          /\ pc = "done" /\ outcome = "exit1"
          /\ LastLines(4) = error_submodule_not_initialized(Listed[trace[t].idx].name, RootDir)
  /\ (pc = "done" /\ RootDir \in gitDirs /\ gitTool = "ok" /\ NoCommandFailed) =>
       \A k \in 1..Len(Listed) :
          (NotRepo(k) /\ \A j \in 1..(k - 1) : ~Fatal(j)) =>
             /\ outcome = "exit1"
             /\ LastLines(4) = error_submodule_not_initialized(Listed[k].name, RootDir)
             /\ \A j \in (k + 1)..Len(Listed) : ~Examined(j)

\* The first of several listed submodules is not a repository and the check
\* stopped there.
C1_Witness ==
  /\ pc = "done" /\ outcome = "exit1"
  /\ Len(Listed) >= 2
  /\ idx = 1 /\ NotRepo(1) /\ ~Examined(2)
  /\ \E t \in 1..Len(trace) : IsExistsCheck(trace[t]) /\ trace[t].idx = 1 /\ ~trace[t].ok

\* C2 (as claimed): with a version-controlled root, every failure of the
\* availability probe -- non-zero exit or executable not found -- makes
\* have_git return False, and the check writes exactly the one warning line,
\* runs nothing after the probe and returns normally.
C2_ProbeFailureWarnsAndReturns ==
  (RootDir \in gitDirs /\ gitTool # "ok" /\ pc = "done") =>
     /\ have_git = "False"
     /\ outcome = "returned"
     /\ stderr = warn_no_git_executable
     /\ Len(trace) = 2 /\ IsProbe(trace[2])

\* C3: when the head-revision query of a submodule succeeds and its trimmed
\* output differs from the revision recorded in the listing, the not-updated
\* diagnostic naming that submodule is the last thing on stderr, the process
\* has exited with status 1 and no call follows (no dirty or extra-files
\* query, no later submodule); when the trimmed output equals the recorded
\* revision no not-updated diagnostic names that submodule.
C3_MismatchStops ==
  \A t \in 1..Len(trace) :
    (trace[t].op = "git rev-parse HEAD" /\ trace[t].ok) =>
       LET k == trace[t].idx IN
       IF strip(trace[t].out) # Listed[k].sha5
       THEN /\ t = Len(trace)
            /\ pc = "done" /\ outcome = "exit1"
            /\ LastLines(4) = error_submodule_not_updated(Listed[k].name, RootDir)
            /\ Cardinality(DiagsNaming(Listed[k].name)) = 1
       ELSE \A p \in 1..Len(stderr) :
              ~(stderr[p].msg = "Submodule not updated" /\ stderr[p].arg = Listed[k].name)

\* The second submodule's head differs from its recorded revision.
C3_Witness ==
  /\ pc = "done" /\ outcome = "exit1" /\ idx = 2
  /\ ~Fatal(1) /\ Mismatch(2)
  /\ trace[Len(trace)].op = "git rev-parse HEAD"

\* C4: when the tracked-status query of a submodule (a repository whose head
\* matches) reports modifications, exactly one diagnostic names that
\* submodule, it is the uncommitted-changes warning, the process is not
\* terminated by it, and the check goes on with the next listed submodule (or
\* returns normally if there is none); a run that meets no fatal submodule and
\* no command failure examines every listed submodule.
C4_DirtyWarnsAndContinues ==
  /\ \A t \in 1..Len(trace) :
       (trace[t].op = "git status -uno --porcelain" /\ trace[t].ok /\ strip(trace[t].out) # <<>>) =>
          LET k == trace[t].idx IN
          /\ ~NotRepo(k) /\ ~Mismatch(k) /\ Dirty(k)
          /\ Cardinality(DiagsNaming(Listed[k].name)) = 1
          /\ \E p \in 1..Len(stderr) : stderr[p] = warn_dirty(Listed[k].name)[1]
          /\ IF t = Len(trace)
             THEN \/ pc = "for" /\ outcome = "running"
                  \/ pc = "is_git_repo" /\ outcome = "running" /\ idx = k + 1
                  \/ pc = "done" /\ outcome = "returned" /\ k = Len(Listed)
             ELSE IsExistsCheck(trace[t + 1]) /\ trace[t + 1].idx = k + 1
  /\ (pc = "done" /\ RootDir \in gitDirs /\ gitTool = "ok" /\ NoCommandFailed
        /\ \A k \in 1..Len(Listed) : ~Fatal(k)) =>
       /\ outcome = "returned"
       /\ \A k \in 1..Len(Listed) :
            /\ Examined(k)
            /\ Dirty(k) => /\ Cardinality(DiagsNaming(Listed[k].name)) = 1
                           /\ \E p \in 1..Len(stderr) : stderr[p] = warn_dirty(Listed[k].name)[1]

\* The first submodule is dirty and has untracked files, and the second one
\* was examined after the warning.
C4_Witness ==
  /\ Len(Listed) >= 2 /\ ~Fatal(1) /\ Dirty(1) /\ Extra(1)
  /\ stderr # <<>> /\ stderr[1] = warn_dirty(Listed[1].name)[1]
  /\ Examined(2) /\ pc = "done"

\* C5: when the root lacks the .git marker nothing is written to stderr, the
\* process is not terminated, and the only call ever made is the existence
\* check of the root (no availability probe, no other command), whatever the
\* tool and the submodules are; the check ends by returning.
C5_NotVersionControlledIsNoOp ==
  RootDir \notin gitDirs =>
     /\ stderr = <<>>
     /\ outcome \in {"running", "returned"}
     /\ \A t \in 1..Len(trace) : t = 1 /\ IsExistsCheck(trace[t]) /\ trace[t].dir = RootDir
     /\ pc \in {"start", "done"}
     /\ pc = "done" => outcome = "returned" /\ Len(trace) = 1

\* The root is not a repository, the tool is broken, a submodule is listed,
\* and the check has returned.
C5_Witness ==
  /\ RootDir \notin gitDirs /\ gitTool = "nonzero" /\ Len(Listed) >= 1
  /\ pc = "done" /\ outcome = "returned"

\* C6: when a command run through run_in_dir exits non-zero, no call follows
\* it, the check has ended with the raised outcome (not exit status 1, not a
\* normal return) and stderr holds no fatal diagnostic; a raised outcome never
\* leaves a fatal diagnostic on stderr; and a normal return after a failed
\* command happens only for the availability probe, whose non-zero exit
\* yields the single warning.
C6_CommandFailurePropagates ==
  /\ \A t \in 1..Len(trace) :
       CommandFailed(trace[t]) =>
          /\ t = Len(trace)
          /\ pc = "done" /\ outcome = "raised"
  /\ outcome = "raised" => \A p \in 1..Len(stderr) : stderr[p].msg \notin FatalMsgs
  /\ outcome \in {"returned", "exit1"} => NoCommandFailed
  /\ (pc = "done" /\ RootDir \in gitDirs /\ gitTool = "nonzero") =>
       outcome = "returned" /\ stderr = warn_no_git_executable

\* The dry-run clean query of the second submodule failed after the first
\* submodule got a warning.
C6_Witness ==
  /\ pc = "done" /\ outcome = "raised" /\ idx = 2
  /\ stderr # <<>>
  /\ trace[Len(trace)].op = "git clean --dry-run -d" /\ ~trace[Len(trace)].ok

\* C7: with a version-controlled root and a working tool, if every listed
\* submodule is a repository, matches its recorded revision, and has neither
\* tracked modifications nor untracked files, stderr stays empty, the process
\* is never terminated, and unless a command exits non-zero the check ends by
\* a normal return after examining every submodule.
C7_AllCleanIsSilent ==
  (RootDir \in gitDirs /\ gitTool = "ok"
     /\ \A k \in 1..Len(Listed) : ~Fatal(k) /\ ~Dirty(k) /\ ~Extra(k)) =>
     /\ stderr = <<>>
     /\ outcome # "exit1"
     /\ (pc = "done" /\ NoCommandFailed) =>
          /\ outcome = "returned"
          /\ \A k \in 1..Len(Listed) : OpsFor(k) = <<"is_git_repo", "git rev-parse HEAD",
                                         "git status -uno --porcelain", "git clean --dry-run -d">>

\* Two clean submodules were examined and the check returned.
C7_Witness ==
  /\ RootDir \in gitDirs /\ gitTool = "ok" /\ Len(Listed) >= 2
  /\ \A k \in 1..Len(Listed) : ~Fatal(k) /\ ~Dirty(k) /\ ~Extra(k)
  /\ pc = "done" /\ outcome = "returned" /\ idx = Len(Listed)

\* C9: when the check has ended and no command run through run_in_dir exited
\* non-zero, the process was terminated with exit status 1 exactly when the
\* root is version-controlled, the tool runs, and some listed submodule is
\* not a repository or has a head different from its recorded revision; the
\* last call before the exit is the existence check or head query that found
\* it (never a dirty or extra-files query); otherwise, when the probe did not
\* raise, the check returned normally.
C9_ExitOneIffFatal ==
  (pc = "done" /\ NoCommandFailed) =>
     /\ outcome = "exit1" <=>
          (RootDir \in gitDirs /\ gitTool = "ok" /\ \E k \in 1..Len(Listed) : Fatal(k))
     /\ outcome = "exit1" =>
          /\ trace[Len(trace)].op \in {"is_git_repo", "git rev-parse HEAD"}
          /\ Fatal(idx) /\ \A j \in 1..(idx - 1) : ~Fatal(j)
     /\ (outcome # "exit1" /\ ~(RootDir \in gitDirs /\ gitTool = "notfound")) =>
          outcome = "returned"

\* A dirty submodule and one with untracked files were passed, no submodule is
\* fatal, and the check returned.
C9_Witness ==
  /\ pc = "done" /\ outcome = "returned" /\ NoCommandFailed
  /\ Len(Listed) >= 2 /\ Dirty(1) /\ Extra(2) /\ ~Dirty(2)
  /\ Len(stderr) = 2

\* C10: the calls made for one submodule are a prefix of existence check,
\* head query, tracked-status query, dry-run clean query; the head query is
\* made only in a directory that is a repository, the tracked-status query
\* only after a successful matching head query, the clean query only after a
\* successful tracked-status query with empty trimmed output; and at most one
\* diagnostic names a submodule.
C10_QueryOrderPerSubmodule ==
  /\ \A k \in 1..Len(Listed) :
       /\ \E n \in 0..4 : OpsFor(k) = SubSeq(<<"is_git_repo", "git rev-parse HEAD",
               "git status -uno --porcelain", "git clean --dry-run -d">>, 1, n)
       /\ Cardinality(DiagsNaming(Listed[k].name)) <= 1
  /\ \A t \in 1..Len(trace) :
       LET c == trace[t] IN
       /\ (~IsExistsCheck(c) /\ c.idx >= 1) => c.dir \in gitDirs
       /\ c.op = "git rev-parse HEAD" =>
            IsExistsCheck(trace[t - 1]) /\ trace[t - 1].ok /\ trace[t - 1].idx = c.idx
       /\ c.op = "git status -uno --porcelain" =>
            /\ trace[t - 1].op = "git rev-parse HEAD" /\ trace[t - 1].ok
            /\ trace[t - 1].idx = c.idx /\ ~Mismatch(c.idx)
       /\ c.op = "git clean --dry-run -d" =>
            /\ trace[t - 1].op = "git status -uno --porcelain" /\ trace[t - 1].ok
            /\ trace[t - 1].idx = c.idx /\ ~Dirty(c.idx)

\* A submodule that is not a repository, whose head would not match and which
\* would be dirty, got exactly the existence check.
C10_Witness ==
  /\ pc = "done" /\ idx >= 1
  /\ NotRepo(idx) /\ strip(cmdOut[PathOf(idx)].head) # Listed[idx].sha5 /\ Dirty(idx)
  /\ OpsFor(idx) = <<"is_git_repo">>

\* The k-th line of the command output.
OutputLine(k) == splitlines(output)[k]

====
